---- MODULE Spec2Model ----
(***************************************************************************)
(* The polls application of mysite/polls/views.py as a state machine.      *)
(*                                                                         *)
(* The store holds Question rows and Choice rows (primary keys are the     *)
(* positions in the two sequences: keys are handed out in order and no     *)
(* view deletes a row).  Every request is served by a worker; a view that  *)
(* issues several store statements is one action per statement, so that    *)
(* statements of concurrent requests interleave as they do on a real       *)
(* store.  A view that issues a single statement is a single action.       *)
(***************************************************************************)
EXTENDS Integers, Sequences, FiniteSets, TLC

VARIABLES
    now,              \* timezone.now()
    questions,        \* Question rows: [question_text, pub_date]
    choices,          \* Choice rows: [question, choice_text, votes]
    pc,               \* per worker: the statement its request is at
    request,          \* per worker: the request being served
    question,         \* per worker: the view's local `question` (a pk)
    selected_choice,  \* per worker: vote's local `selected_choice` (an instance)
    response,         \* per worker: the response returned
    pre,              \* the store as it was when the request in service arrived,
                      \* as long as that request is the only one in service
    redirected        \* per Choice pk: vote requests on it answered by a redirect

vars == <<now, questions, choices, pc, request, question, selected_choice,
          response, pre, redirected>>

store == <<questions, choices>>

(***************************************************************************)
(* Bounds of the model.                                                    *)
(***************************************************************************)
NWorkers == 2
MaxRows == 4
MaxQuestions == 2
MaxVotes == 1
MaxTime == 1
ConcMaxChoices == 4
ConcMaxVotes == 2
MaxListed == 6

Workers == 1..NWorkers
\* days offsets handed to the tests' create_question helper
Days == {-1, 1}
\* submitted texts: empty, whitespace only, and text with leading whitespace
Texts == {<<>>, <<" ">>, <<" ", "a">>}

(***************************************************************************)
(* Program constants.                                                      *)
(***************************************************************************)
\* views.py:21  [:5]
IndexLimit == 5
\* views.py:73  question.answer_count < 3
AnswerLimit == 3

(***************************************************************************)
(* Requests and responses.                                                 *)
(***************************************************************************)
NoRequest == [view |-> "", method |-> "", question_id |-> 0, POST |-> [k \in {} |-> 0]]
NoResponse == [status |-> 0, template |-> "", url |-> <<>>, context |-> [k \in {} |-> 0]]
NoChoice == [pk |-> 0, question |-> 0, choice_text |-> <<>>, votes |-> 0]
NoStore == <<>>

\* request.POST: a dict holding `field` or nothing
PostDicts(field, values) ==
    {[k \in {} |-> 0]} \cup {[k \in {field} |-> v] : v \in values}

render(template, context) ==
    [status |-> 200, template |-> template, url |-> <<>>, context |-> context]

HttpResponseRedirect(url) ==
    [status |-> 302, template |-> "", url |-> url, context |-> [k \in {} |-> 0]]

\* get_object_or_404 / DetailView.get_object raising Http404
Http404 == [status |-> 404, template |-> "", url |-> <<>>, context |-> [k \in {} |-> 0]]

\* an exception no view catches: Django answers with a server error
ServerError == [status |-> 500, template |-> "", url |-> <<>>, context |-> [k \in {} |-> 0]]

\* str.strip(): leading and trailing whitespace removed
RECURSIVE lstrip(_)
lstrip(s) == IF s # <<>> /\ Head(s) = " " THEN lstrip(Tail(s)) ELSE s

RECURSIVE rstrip(_)
rstrip(s) ==
    IF s # <<>> /\ s[Len(s)] = " " THEN rstrip(SubSeq(s, 1, Len(s) - 1)) ELSE s

strip(s) == rstrip(lstrip(s))

\* A primary key travels in a form as its decimal string; the lookup pk=<string>
\* converts it back with int(), which raises ValueError on any other string.
decimal == <<"1", "2", "3", "4", "5", "6", "7", "8", "9">>
is_number(string) == \E n \in DOMAIN decimal : decimal[n] = string
int(string) == CHOOSE n \in DOMAIN decimal : decimal[n] = string

(***************************************************************************)
(* The query layer, as the views use it.                                   *)
(***************************************************************************)
\* Question.objects.filter(pub_date__lte=timezone.now())
published == {pk \in DOMAIN questions : questions[pk].pub_date <= now}

\* get_object_or_404(Question, pk=question_id): the rows with that pk
Question_objects(question_id) == {pk \in DOMAIN questions : pk = question_id}

\* question.choice_set: the Choices whose foreign key is the Question
choice_set(q) == {pk \in DOMAIN choices : choices[pk].question = q}

\* question.choice_set.get(pk=...): the rows of the choice_set with that pk
choice_set_get(q, pk) == {c \in choice_set(q) : c = pk}

\* question.answer_count (models.py): the number of Choices of the Question
answer_count(q) == Cardinality(choice_set(q))

\* the model instance a query loads: the row and its pk
Choice_instance(pk) ==
    [pk |-> pk, question |-> choices[pk].question,
     choice_text |-> choices[pk].choice_text, votes |-> choices[pk].votes]

\* .order_by('-pub_date'): every order of the rows the store may return, the
\* order of rows with equal pub_date being the store's choice
RECURSIVE order_by_pub_date_desc(_)
order_by_pub_date_desc(S) ==
    IF S = {} THEN {<<>>}
    ELSE UNION {{<<m>> \o r : r \in order_by_pub_date_desc(S \ {m})} :
                m \in {x \in S : \A y \in S : questions[y].pub_date <= questions[x].pub_date}}

\* [:n]
slice(s, n) == SubSeq(s, 1, IF Len(s) < n THEN Len(s) ELSE n)

\* mutant: the listing without the pub_date filter
IndexView_unfiltered ==
    {slice(s, IndexLimit) : s \in order_by_pub_date_desc(DOMAIN questions)}

\* IndexView.get_queryset: the lists it may return
IndexView_get_queryset ==
    {slice(s, IndexLimit) : s \in order_by_pub_date_desc(published)}

\* mutant: DetailView without its get_queryset, as ResultsView is
DetailView_default_queryset == DOMAIN questions

\* DetailView.get_queryset
DetailView_get_queryset == published

\* ResultsView declares model = Question and no get_queryset: all Questions
ResultsView_get_queryset == DOMAIN questions

(***************************************************************************)
(* Workers.                                                                *)
(***************************************************************************)
Init ==
    /\ now = 0
    /\ questions = <<>>
    /\ choices = <<>>
    /\ pc = [w \in Workers |-> "idle"]
    /\ request = [w \in Workers |-> NoRequest]
    /\ question = [w \in Workers |-> 0]
    /\ selected_choice = [w \in Workers |-> NoChoice]
    /\ response = [w \in Workers |-> NoResponse]
    /\ pre = NoStore
    /\ redirected = <<>>

\* a request arrives at an idle worker
Arrive(w, req) ==
    /\ pc[w] = "idle"
    /\ request' = [request EXCEPT ![w] = req]
    /\ pre' = IF \A v \in Workers : pc[v] = "idle" THEN store ELSE NoStore

\* the view returns
Return(w, resp) ==
    /\ pc' = [pc EXCEPT ![w] = "done"]
    /\ response' = [response EXCEPT ![w] = resp]

\* the view goes on to its next statement
Goto(w, label) ==
    /\ pc' = [pc EXCEPT ![w] = label]
    /\ UNCHANGED response

\* the response is sent and the worker is free again
Finish(w) ==
    /\ pc[w] = "done"
    /\ pc' = [pc EXCEPT ![w] = "idle"]
    /\ request' = [request EXCEPT ![w] = NoRequest]
    /\ question' = [question EXCEPT ![w] = 0]
    /\ selected_choice' = [selected_choice EXCEPT ![w] = NoChoice]
    /\ response' = [response EXCEPT ![w] = NoResponse]
    /\ pre' = NoStore
    /\ UNCHANGED <<now, questions, choices, redirected>>

\* the clock advances
Tick ==
    /\ now < MaxTime
    /\ now' = now + 1
    /\ UNCHANGED <<questions, choices, pc, request, question, selected_choice,
                   response, pre, redirected>>

\* tests.py create_question(question_text, days): a Question published `days`
\* from now, written to the store directly
create_question(question_text, days) ==
    /\ questions' = Append(questions, [question_text |-> question_text,
                                       pub_date |-> now + days])
    /\ UNCHANGED <<now, choices, pc, request, question, selected_choice,
                   response, pre, redirected>>

(***************************************************************************)
(* The read-only views.                                                    *)
(***************************************************************************)
\* IndexView
IndexView(w) ==
    /\ Arrive(w, [view |-> "index", method |-> "GET", question_id |-> 0,
                  POST |-> [k \in {} |-> 0]])
    /\ \E latest_question_list \in IndexView_get_queryset :
          Return(w, render("polls/index.html",
                           [latest_question_list |-> latest_question_list]))
    /\ UNCHANGED <<now, questions, choices, question, selected_choice, redirected>>

\* a generic.DetailView over `queryset`: the object with the url's pk, or Http404
get_object(w, view, template, queryset, question_id) ==
    /\ Arrive(w, [view |-> view, method |-> "GET", question_id |-> question_id,
                  POST |-> [k \in {} |-> 0]])
    /\ IF question_id \in queryset
       THEN Return(w, render(template, [question |-> question_id]))
       ELSE Return(w, Http404)
    /\ UNCHANGED <<now, questions, choices, question, selected_choice, redirected>>

DetailView(w, question_id) ==
    get_object(w, "detail", "polls/detail.html", DetailView_get_queryset, question_id)

ResultsView(w, question_id) ==
    get_object(w, "results", "polls/results.html", ResultsView_get_queryset, question_id)

(***************************************************************************)
(* vote: three store statements.                                           *)
(***************************************************************************)
\* question = get_object_or_404(Question, pk=question_id)
vote_get_question(w, question_id, POST) ==
    /\ Arrive(w, [view |-> "vote", method |-> "POST", question_id |-> question_id,
                  POST |-> POST])
    /\ IF Question_objects(question_id) # {}
       THEN /\ question' = [question EXCEPT ![w] = question_id]
            /\ Goto(w, "vote_get_choice")
       ELSE /\ Return(w, Http404)
            /\ UNCHANGED question
    /\ UNCHANGED <<now, questions, choices, selected_choice, redirected>>

\* selected_choice = question.choice_set.get(pk=request.POST['choice']), with
\* KeyError and Choice.DoesNotExist answered by the detail page; the ValueError
\* of a pk that is no number is not caught
vote_get_choice(w) ==
    /\ pc[w] = "vote_get_choice"
    /\ IF "choice" \in DOMAIN request[w].POST /\ ~is_number(request[w].POST["choice"])
       THEN /\ Return(w, ServerError)
            /\ UNCHANGED selected_choice
       ELSE IF "choice" \in DOMAIN request[w].POST
               /\ choice_set_get(question[w], int(request[w].POST["choice"])) # {}
       THEN /\ selected_choice' =
                  [selected_choice EXCEPT ![w] = Choice_instance(int(request[w].POST["choice"]))]
            /\ Goto(w, "vote_save")
       ELSE /\ Return(w, render("polls/detail.html",
                                [question |-> question[w],
                                 error_message |-> "You didn't select a choice."]))
            /\ UNCHANGED selected_choice
    /\ UNCHANGED <<now, questions, choices, request, question, pre, redirected>>

\* mutant: the increment forgotten
votes_not_incremented(instance) == instance

\* selected_choice.votes += 1
votes_plus_one(instance) == [instance EXCEPT !.votes = @ + 1]

\* selected_choice.save(): the row is written from the instance's fields
save(instance) ==
    [choices EXCEPT ![instance.pk] =
        [question |-> instance.question, choice_text |-> instance.choice_text,
         votes |-> instance.votes]]

\* selected_choice.votes += 1; selected_choice.save(); redirect to the results
vote_save(w) ==
    /\ pc[w] = "vote_save"
    /\ selected_choice' = [selected_choice EXCEPT ![w] = votes_plus_one(@)]
    /\ choices' = save(selected_choice'[w])
    /\ redirected' = [redirected EXCEPT ![selected_choice[w].pk] = @ + 1]
    /\ Return(w, HttpResponseRedirect(<<"polls:results", question[w]>>))
    /\ UNCHANGED <<now, questions, request, question, pre>>

(***************************************************************************)
(* create: one store statement.                                            *)
(***************************************************************************)
\* mutant: the stripped text stored instead of the submitted one
new_Question_stripped(new_question) ==
    [question_text |-> strip(new_question), pub_date |-> now]

\* Question(question_text=request.POST['new_question'], pub_date=timezone.now())
new_Question(new_question) == [question_text |-> new_question, pub_date |-> now]

create(w, method, POST) ==
    /\ Arrive(w, [view |-> "create", method |-> method, question_id |-> 0,
                  POST |-> POST])
    /\ IF method = "POST"
       THEN IF "new_question" \notin DOMAIN POST
            THEN \* request.POST['new_question'] raises MultiValueDictKeyError
                 /\ Return(w, ServerError)
                 /\ UNCHANGED questions
            ELSE IF strip(POST["new_question"]) = <<>>
            THEN /\ Return(w, render("polls/create.html",
                                     [message |-> "You didn't enter a question."]))
                 /\ UNCHANGED questions
            ELSE /\ questions' = Append(questions, new_Question(POST["new_question"]))
                 /\ Return(w, HttpResponseRedirect(<<"polls:index">>))
       ELSE /\ Return(w, render("polls/create.html", [k \in {} |-> 0]))
            /\ UNCHANGED questions
    /\ UNCHANGED <<now, choices, question, selected_choice, redirected>>

(***************************************************************************)
(* create_answer: three store statements.                                  *)
(***************************************************************************)
\* question = get_object_or_404(Question, pk=question_id)
create_answer_get_question(w, method, question_id, POST) ==
    /\ Arrive(w, [view |-> "create_answer", method |-> method,
                  question_id |-> question_id, POST |-> POST])
    /\ IF Question_objects(question_id) # {}
       THEN /\ question' = [question EXCEPT ![w] = question_id]
            /\ Goto(w, "create_answer_count")
       ELSE /\ Return(w, Http404)
            /\ UNCHANGED question
    /\ UNCHANGED <<now, questions, choices, selected_choice, redirected>>

\* question.answer_count < 3
below_answer_limit(q) == answer_count(q) < AnswerLimit

\* if question.answer_count < 3: ... up to choice_set.create
create_answer_count(w) ==
    /\ pc[w] = "create_answer_count"
    /\ IF below_answer_limit(question[w])
       THEN IF request[w].method = "POST"
            THEN IF "new_answer" \notin DOMAIN request[w].POST
                 THEN \* request.POST['new_answer'] raises MultiValueDictKeyError
                      Return(w, ServerError)
                 ELSE IF strip(request[w].POST["new_answer"]) = <<>>
                 THEN Return(w, render("polls/create_answer.html",
                                       [message |-> "You didn't enter an answer.",
                                        question |-> question[w]]))
                 ELSE Goto(w, "create_answer_create")
            ELSE Return(w, render("polls/create_answer.html",
                                  [question |-> question[w]]))
       ELSE Return(w, render("polls/detail.html",
                             [message_too_much |-> "You can't add moore than 3 answers.",
                              question |-> question[w]]))
    /\ UNCHANGED <<now, questions, choices, request, question, selected_choice,
                   pre, redirected>>

\* question.choice_set.create(choice_text=request.POST['new_answer'], votes=0)
new_Choice(q, new_answer) == [question |-> q, choice_text |-> new_answer, votes |-> 0]

create_answer_create(w) ==
    /\ pc[w] = "create_answer_create"
    /\ choices' = Append(choices, new_Choice(question[w], request[w].POST["new_answer"]))
    /\ redirected' = Append(redirected, 0)
    /\ Return(w, HttpResponseRedirect(<<"polls:detail", question[w]>>))
    /\ UNCHANGED <<now, questions, request, question, selected_choice, pre>>

(***************************************************************************)
(* Specifications.                                                         *)
(***************************************************************************)
QuestionIds == 1..(Len(questions) + 1)
\* the `choice` values a form may carry: the pks of the Choices, a pk of no
\* Choice, and a string that is no number
ChoiceValues == {decimal[c] : c \in 1..(Len(choices) + 1)} \cup {"abc"}

\* a GET carries no form data; a POST carries `field` or nothing
Forms(field, values) ==
    {<<"GET", [k \in {} |-> 0]>>} \cup {<<"POST", POST>> : POST \in PostDicts(field, values)}

RECURSIVE sum_votes(_)
sum_votes(cs) == IF cs = <<>> THEN 0 ELSE Head(cs).votes + sum_votes(Tail(cs))

\* the rows of the store and the votes cast, which the bounds keep small
rows == Len(questions) + Len(choices)
votes_cast == sum_votes(choices)
room_for_question == Len(questions) < MaxQuestions /\ rows < MaxRows

\* the requests a worker may be handed
read_request(w) ==
    \/ IndexView(w)
    \/ \E question_id \in QuestionIds : DetailView(w, question_id)
    \/ \E question_id \in QuestionIds : ResultsView(w, question_id)

vote_request(w) ==
    \E question_id \in QuestionIds, POST \in PostDicts("choice", ChoiceValues) :
       vote_get_question(w, question_id, POST)

create_request(w) ==
    \E form \in Forms("new_question", Texts) : create(w, form[1], form[2])

create_answer_request(w) ==
    \E question_id \in QuestionIds, form \in Forms("new_answer", Texts) :
       create_answer_get_question(w, form[1], question_id, form[2])

\* one synchronous worker: each request runs alone, from arrival to response
Next ==
    \/ read_request(1)
    \/ vote_request(1)
    \/ room_for_question /\ create_request(1)
    \/ create_answer_request(1)
    \/ vote_get_choice(1)
    \/ votes_cast < MaxVotes /\ vote_save(1)
    \/ create_answer_count(1)
    \/ rows < MaxRows /\ create_answer_create(1)
    \/ Finish(1)
    \/ pc[1] = "idle" /\ Tick
    \/ /\ pc[1] = "idle"
       /\ room_for_question
       /\ \E days \in Days : create_question(<<" ", "a">>, days)

Spec == Init /\ [][Next]_vars

\* TestVote.setUp: one Question published now, with two Choices of 0 votes
setUp ==
    /\ now = 0
    /\ questions = <<[question_text |-> <<"a">>, pub_date |-> 0]>>
    /\ choices = <<[question |-> 1, choice_text |-> <<"a">>, votes |-> 0],
                   [question |-> 1, choice_text |-> <<"a">>, votes |-> 0]>>
    /\ pc = [w \in Workers |-> "idle"]
    /\ request = [w \in Workers |-> NoRequest]
    /\ question = [w \in Workers |-> 0]
    /\ selected_choice = [w \in Workers |-> NoChoice]
    /\ response = [w \in Workers |-> NoResponse]
    /\ pre = NoStore
    /\ redirected = <<0, 0>>

\* concurrent workers: the statements of their vote and create_answer requests
\* on the Question interleave; the votes are for Choices of the store
ConcNext ==
    \E w \in Workers :
       \/ \E c \in DOMAIN choices : vote_get_question(w, 1, [k \in {"choice"} |-> decimal[c]])
       \/ \E POST \in PostDicts("new_answer", Texts) :
             create_answer_get_question(w, "POST", 1, POST)
       \/ vote_get_choice(w)
       \/ selected_choice[w].votes < ConcMaxVotes /\ vote_save(w)
       \/ create_answer_count(w)
       \/ Len(choices) < ConcMaxChoices /\ create_answer_create(w)
       \/ Finish(w)

ConcSpec == setUp /\ [][ConcNext]_vars

\* the listing over a store of many Questions
IndexNext ==
    \/ IndexView(1)
    \/ Len(questions) < MaxListed /\ create_request(1)
    \/ Finish(1)
    \/ pc[1] = "idle" /\ Tick
    \/ /\ pc[1] = "idle"
       /\ Len(questions) < MaxListed
       /\ \E days \in Days : create_question(<<" ", "a">>, days)

IndexSpec == Init /\ [][IndexNext]_vars

(***************************************************************************)
(* Properties.  A request that ran alone is one whose worker has returned  *)
(* while `pre` still holds the store of its arrival; what the properties   *)
(* say of the store before the request they say of `pre`.                  *)
(***************************************************************************)
questions_before == pre[1]
choices_before == pre[2]

ran_alone(w, view) == pc[w] = "done" /\ pre # NoStore /\ request[w].view = view

is_blank(text) == \A i \in DOMAIN text : text[i] = " "

\* the pks of the Choices that the `choice` field of w's request names: none when
\* the field is missing or is not the decimal string of a Choice's pk
named_choices(w) ==
    IF "choice" \in DOMAIN request[w].POST
    THEN {c \in DOMAIN choices_before : decimal[c] = request[w].POST["choice"]}
    ELSE {}

\* the vote request of w names a Choice of its Question
valid_choice(w) ==
    \E c \in named_choices(w) : choices_before[c].question = request[w].question_id

\* C1: every Question owns at most 3 Choices, whatever the interleaving of
\* create_answer requests.
C1_AtMostThreeChoices ==
    \A q \in DOMAIN questions :
       Cardinality({c \in DOMAIN choices : choices[c].question = q}) <= 3

\* C2: no vote is lost: once no vote request is in service, each Choice's vote
\* count is its initial count (0) plus the number of vote requests on it that
\* were answered by a redirect.
C2_NoLostVote ==
    (\A w \in Workers : pc[w] \notin {"vote_get_choice", "vote_save"})
    => \A c \in DOMAIN choices : choices[c].votes = redirected[c]

\* C3: a vote request, run alone, for a Choice of an existing Question adds
\* exactly 1 to that Choice's votes, leaves every other Choice, the set of
\* Choices and the Questions as they were, and redirects to the results view.
C3_VoteCountsOnce ==
    \A w \in Workers :
       (/\ ran_alone(w, "vote")
        /\ request[w].question_id \in DOMAIN questions_before
        /\ valid_choice(w))
       => /\ response[w] =
               HttpResponseRedirect(<<"polls:results", request[w].question_id>>)
          /\ questions = questions_before
          /\ DOMAIN choices = DOMAIN choices_before
          /\ \A c \in DOMAIN choices :
                choices[c] = IF c \in named_choices(w)
                             THEN [choices_before[c] EXCEPT !.votes = @ + 1]
                             ELSE choices_before[c]

\* C3 witness: a vote was counted while a Choice of another Question exists.
C3_Witness ==
    \E w \in Workers :
       /\ ran_alone(w, "vote")
       /\ response[w].status = 302
       /\ \E c \in DOMAIN choices : choices[c].question # request[w].question_id

\* C4: a vote request on an existing Question whose choice is missing, names no
\* Choice (a pk of no Choice, or a string that is no pk at all) or names a
\* Choice of another Question changes nothing in the store and answers 200 with
\* the detail view and "You didn't select a choice.".
C4_InvalidChoiceChangesNothing ==
    \A w \in Workers :
       (/\ ran_alone(w, "vote")
        /\ request[w].question_id \in DOMAIN questions_before
        /\ ~valid_choice(w))
       => /\ store = pre
          /\ response[w] =
               render("polls/detail.html",
                      [question |-> request[w].question_id,
                       error_message |-> "You didn't select a choice."])
          /\ response[w].status = 200

\* the published Questions of the store, by the glossary's definition
is_published(q) == questions[q].pub_date <= now

\* C5: the listing holds only Questions published by now, at most 5 of them,
\* each once, in descending order of pub_date, as many as there are (up to 5),
\* and none is left out while a less recent one is listed; the store is as it
\* was.
C5_ListingIsFiveMostRecent ==
    \A w \in Workers :
       ran_alone(w, "index") =>
          LET list == response[w].context["latest_question_list"]
              listed == {list[i] : i \in DOMAIN list}
              all == {q \in DOMAIN questions : is_published(q)}
          IN /\ response[w].status = 200
             /\ store = pre
             /\ listed \subseteq all
             /\ Len(list) <= 5
             /\ Cardinality(listed) = Len(list)
             /\ Len(list) = IF Cardinality(all) < 5 THEN Cardinality(all) ELSE 5
             /\ \A i, j \in DOMAIN list :
                   i < j => questions[list[i]].pub_date >= questions[list[j]].pub_date
             /\ \A q \in all \ listed : \A l \in listed :
                   questions[q].pub_date <= questions[l].pub_date

\* C5 witness: the listing is full and a published Question is left out.
C5_Witness ==
    \E w \in Workers :
       /\ ran_alone(w, "index")
       /\ Len(response[w].context["latest_question_list"]) = 5
       /\ Cardinality({q \in DOMAIN questions : is_published(q)}) > 5

\* C6: the detail view returns the Question exactly when it exists and is
\* published by now, and Http404 otherwise; the store is as it was.
C6_DetailOnlyPublished ==
    \A w \in Workers :
       ran_alone(w, "detail") =>
          /\ store = pre
          /\ response[w] =
               IF /\ request[w].question_id \in DOMAIN questions
                  /\ is_published(request[w].question_id)
               THEN render("polls/detail.html", [question |-> request[w].question_id])
               ELSE Http404

\* C6 witness: the detail view was asked for a Question not published yet.
C6_Witness ==
    \E w \in Workers :
       /\ ran_alone(w, "detail")
       /\ request[w].question_id \in DOMAIN questions
       /\ ~is_published(request[w].question_id)
       /\ response[w].status = 404

\* a create_answer submission on an existing Question with fewer than 3 Choices
answer_submission(w) ==
    /\ ran_alone(w, "create_answer")
    /\ request[w].method = "POST"
    /\ request[w].question_id \in DOMAIN questions_before
    /\ Cardinality({c \in DOMAIN choices_before :
                      choices_before[c].question = request[w].question_id}) < 3

\* C7: a submission whose text field is absent, empty or whitespace-only
\* creates nothing and re-renders its form with the message: create with
\* "You didn't enter a question.", create_answer with "You didn't enter an
\* answer.".
C7_BlankTextReRendersForm ==
    \A w \in Workers :
       /\ (/\ ran_alone(w, "create")
           /\ request[w].method = "POST"
           /\ ("new_question" \in DOMAIN request[w].POST
                 => is_blank(request[w].POST["new_question"])))
          => /\ store = pre
             /\ response[w] = render("polls/create.html",
                                     [message |-> "You didn't enter a question."])
       /\ (/\ answer_submission(w)
           /\ ("new_answer" \in DOMAIN request[w].POST
                 => is_blank(request[w].POST["new_answer"])))
          => /\ store = pre
             /\ response[w] = render("polls/create_answer.html",
                                     [message |-> "You didn't enter an answer.",
                                      question |-> request[w].question_id])

\* C8: a create submission whose text is not blank adds exactly one Question,
\* with the text as submitted and pub_date now, leaves every other row as it
\* was and redirects to the listing.
C8_CreateAddsOneQuestion ==
    \A w \in Workers :
       (/\ ran_alone(w, "create")
        /\ request[w].method = "POST"
        /\ "new_question" \in DOMAIN request[w].POST
        /\ ~is_blank(request[w].POST["new_question"]))
       => /\ questions = Append(questions_before,
                                [question_text |-> request[w].POST["new_question"],
                                 pub_date |-> now])
          /\ choices = choices_before
          /\ response[w] = HttpResponseRedirect(<<"polls:index">>)

\* C8 witness: a Question was created from a text with leading whitespace in a
\* store that already held a Question and a Choice.
C8_Witness ==
    \E w \in Workers :
       /\ ran_alone(w, "create")
       /\ response[w].status = 302
       /\ Head(request[w].POST["new_question"]) = " "
       /\ questions_before # <<>>
       /\ choices_before # <<>>

\* C9: the detail, results, vote and create_answer routes answer Http404 for a
\* question id that is unknown or names a Question not published yet, and
\* change nothing in the store.
C9_UnpublishedIsNotFound ==
    \A w \in Workers :
       (/\ pc[w] = "done"
        /\ pre # NoStore
        /\ request[w].view \in {"detail", "results", "vote", "create_answer"}
        /\ (request[w].question_id \in DOMAIN questions_before
              => questions_before[request[w].question_id].pub_date > now))
       => /\ response[w] = Http404
          /\ store = pre

\* C10: no step of any execution lowers a Choice's vote count, and no count is
\* below 0.
C10_VotesNeverDecrease ==
    [][\A c \in DOMAIN choices :
          /\ choices'[c].votes >= choices[c].votes
          /\ choices[c].votes >= 0]_vars

====
